---- MODULE Spec2Model ----
(***************************************************************************)
(* The semantic document index of backend/app/nlp/semantic_search.py:      *)
(* class SemanticSearch, its FAISS flat L2 index (self.index), its         *)
(* document list (self.documents) and every public method.  One step of    *)
(* the model is one completed method call on the process-wide instance.    *)
(***************************************************************************)
EXTENDS Integers, Sequences, FiniteSets, TLC

\* ---------------------------------------------------------------- bounds
MaxDocs     == 2   \* longest document list / vector store explored
MaxBuild    == 2   \* longest list handed to build_index
MaxK        == 2   \* largest k handed to search / get_similar_documents
MaxClusters == 2   \* largest n_clusters handed to cluster_documents
MaxThreadCalls == 1  \* mutating calls one thread makes when calls interleave
MaxCalls     == 2  \* largest max_calls handed to rate_limit
MaxTimeFrame == 2  \* largest time_frame handed to rate_limit, in seconds
MaxTime      == 6  \* last reading of time.time() explored, in seconds

\* ---------------------------------------------------------------- values
Ids      == {"1", "2"}
Contents == {"p", "q", "z"}

Document == [id : Ids, content : Contents]

\* SentenceTransformer.encode on one text: deterministic, fixed dimension.
\* "z" is a text whose embedding is the zero vector.
encode(c) ==
  CASE c = "p" -> <<1, 0>>
    [] c = "q" -> <<0, 1>>
    [] OTHER   -> <<0, 0>>

\* self.model.encode([...]) on a batch of texts
encode_batch(cs) == [i \in 1..Len(cs) |-> encode(cs[i])]

ContentsOf(docs) == [i \in 1..Len(docs) |-> docs[i].content]

IdsOf(docs) == {docs[i].id : i \in 1..Len(docs)}

\* self.index = None
None == [isNone |-> TRUE, xb |-> <<>>]

\* faiss.IndexFlatL2(dimension) followed by index.add(embeddings)
IndexFlatL2(vecs) == [isNone |-> FALSE, xb |-> vecs]

\* index.add(embedding) on an existing index
IndexAdd(idx, vec) == [idx EXCEPT !.xb = Append(@, vec)]

\* next((i for i, doc in enumerate(docs) if doc['id'] == id), None);
\* positions are 1-based here, 0 stands for None
FirstIdx(docs, id) ==
  IF id \in IdsOf(docs)
    THEN CHOOSE i \in 1..Len(docs) :
           /\ docs[i].id = id
           /\ \A j \in 1..(i - 1) : docs[j].id # id
    ELSE 0

\* del docs[i]
Del(docs, i) == SubSeq(docs, 1, i - 1) \o SubSeq(docs, i + 1, Len(docs))

\* log records of the module-level logger
Info(m)    == [level |-> "info", msg |-> m]
Warning(m) == [level |-> "warning", msg |-> m]
Error(m)   == [level |-> "error", msg |-> m]

\* ------------------------------------------------------- mutating methods
\* Each method is an operator from the object's fields and the call's inputs
\* to the fields after the call, the records logged, the batches handed to
\* the embedding provider, and whether the provider raised.  `fail` is the
\* provider's behaviour on this call (an input of the environment).

\* build_index adding the new vectors to the index it finds
build_index_appends(idx, docs, fail) ==
  IF fail \/ docs = <<>>
    THEN [index |-> idx, documents |-> docs, fault |-> fail,
          calls |-> <<ContentsOf(docs)>>,
          log |-> <<Error("Error building index")>>]
  ELSE [index |-> IndexFlatL2(idx.xb \o encode_batch(ContentsOf(docs))),
        documents |-> docs, fault |-> FALSE,
        calls |-> <<ContentsOf(docs)>>,
        log |-> <<Info("Built index")>>]

\* build_index dropping the index when it cannot build a new one
build_index_resets(idx, docs, fail) ==
  IF fail \/ docs = <<>>
    THEN [index |-> None, documents |-> docs, fault |-> fail,
          calls |-> <<ContentsOf(docs)>>,
          log |-> <<Error("Error building index")>>]
  ELSE [index |-> IndexFlatL2(encode_batch(ContentsOf(docs))),
        documents |-> docs, fault |-> FALSE,
        calls |-> <<ContentsOf(docs)>>,
        log |-> <<Info("Built index")>>]

build_index(idx, docs, fail) ==
  IF fail
    THEN [index |-> idx, documents |-> docs, fault |-> TRUE,
          calls |-> <<ContentsOf(docs)>>,
          log |-> <<Error("Error building index")>>]
  ELSE IF docs = <<>>
    \* encode([]) is an array of shape (0,): embeddings.shape[1] raises
    THEN [index |-> idx, documents |-> docs, fault |-> FALSE,
          calls |-> <<ContentsOf(docs)>>,
          log |-> <<Error("Error building index")>>]
  ELSE [index |-> IndexFlatL2(encode_batch(ContentsOf(docs))),
        documents |-> docs, fault |-> FALSE,
        calls |-> <<ContentsOf(docs)>>,
        log |-> <<Info("Built index")>>]

clear_index(idx, docs) ==
  [index |-> None, documents |-> <<>>, fault |-> FALSE, calls |-> <<>>,
   log |-> <<Info("Cleared the index and documents.")>>]

\* add_document building an index of its own when there is none
add_document_lazy(idx, docs, doc, fail) ==
  IF fail
    THEN [index |-> idx, documents |-> docs, fault |-> TRUE,
          calls |-> <<(<<doc.content>>)>>,
          log |-> <<Error("Error adding document to index")>>]
  ELSE [index |-> IndexFlatL2(Append(idx.xb, encode(doc.content))),
        documents |-> Append(docs, doc), fault |-> FALSE,
        calls |-> <<(<<doc.content>>)>>,
        log |-> <<Info("Added document to index")>>]

add_document(idx, docs, doc, fail) ==
  IF idx.isNone
    THEN [index |-> idx, documents |-> docs, fault |-> FALSE, calls |-> <<>>,
          log |-> <<Error("Error adding document to index")>>]
  ELSE IF fail
    THEN [index |-> idx, documents |-> docs, fault |-> TRUE,
          calls |-> <<(<<doc.content>>)>>,
          log |-> <<Error("Error adding document to index")>>]
  ELSE [index |-> IndexAdd(idx, encode(doc.content)),
        documents |-> Append(docs, doc), fault |-> FALSE,
        calls |-> <<(<<doc.content>>)>>,
        log |-> <<Info("Added document to index")>>]

\* remove_document rebuilding the index even when the id is absent
remove_document_rebuilds(idx, docs, id, fail) ==
  IF idx.isNone
    THEN [index |-> idx, documents |-> docs, fault |-> FALSE, calls |-> <<>>,
          log |-> <<Error("Error removing document from index")>>]
  ELSE LET doc_idx == FirstIdx(docs, id)
           b == build_index(idx, IF doc_idx # 0 THEN Del(docs, doc_idx)
                                 ELSE docs, fail)
       IN [b EXCEPT !.log = @ \o <<IF doc_idx # 0
                                    THEN Info("Removed document from index")
                                    ELSE Warning("Document not found in index")>>]

remove_document(idx, docs, id, fail) ==
  IF idx.isNone
    THEN [index |-> idx, documents |-> docs, fault |-> FALSE, calls |-> <<>>,
          log |-> <<Error("Error removing document from index")>>]
  ELSE LET doc_idx == FirstIdx(docs, id) IN
    IF doc_idx # 0
      THEN LET b == build_index(idx, Del(docs, doc_idx), fail) IN
           [b EXCEPT !.log = @ \o <<Info("Removed document from index")>>]
      ELSE [index |-> idx, documents |-> docs, fault |-> FALSE,
            calls |-> <<>>,
            log |-> <<Warning("Document not found in index")>>]

\* update_document only logging when the id is absent
update_document_ignores_new(idx, docs, doc, fail) ==
  IF idx.isNone
    THEN [index |-> idx, documents |-> docs, fault |-> FALSE, calls |-> <<>>,
          log |-> <<Error("Error updating document in index")>>]
  ELSE LET doc_idx == FirstIdx(docs, doc.id) IN
    IF doc_idx # 0
      THEN LET b == build_index(idx, [docs EXCEPT ![doc_idx] = doc], fail) IN
           [b EXCEPT !.log = @ \o <<Info("Updated document in index")>>]
      ELSE [index |-> idx, documents |-> docs, fault |-> FALSE, calls |-> <<>>,
            log |-> <<Warning("Document not found in index. Adding as new document.")>>]

\* update_document appending the new version instead of replacing the old
update_document_appends(idx, docs, doc, fail) ==
  IF idx.isNone
    THEN [index |-> idx, documents |-> docs, fault |-> FALSE, calls |-> <<>>,
          log |-> <<Error("Error updating document in index")>>]
  ELSE LET doc_idx == FirstIdx(docs, doc.id) IN
    IF doc_idx # 0
      THEN LET b == build_index(idx, Append(docs, doc), fail) IN
           [b EXCEPT !.log = @ \o <<Info("Updated document in index")>>]
      ELSE LET a == add_document(idx, docs, doc, fail) IN
           [a EXCEPT !.log =
              <<Warning("Document not found in index. Adding as new document.")>>
              \o @]

update_document(idx, docs, doc, fail) ==
  IF idx.isNone
    THEN [index |-> idx, documents |-> docs, fault |-> FALSE, calls |-> <<>>,
          log |-> <<Error("Error updating document in index")>>]
  ELSE LET doc_idx == FirstIdx(docs, doc.id) IN
    IF doc_idx # 0
      THEN LET b == build_index(idx, [docs EXCEPT ![doc_idx] = doc], fail) IN
           [b EXCEPT !.log = @ \o <<Info("Updated document in index")>>]
      ELSE LET a == add_document(idx, docs, doc, fail) IN
           [a EXCEPT !.log =
              <<Warning("Document not found in index. Adding as new document.")>>
              \o @]

\* ------------------------------------------------------- read-only methods
Min(a, b) == IF a < b THEN a ELSE b

Dot(u, v) == u[1] * v[1] + u[2] * v[2]

\* squared Euclidean distance, the metric of IndexFlatL2
L2sqr(u, v) == (u[1] - v[1]) * (u[1] - v[1]) + (u[2] - v[2]) * (u[2] - v[2])

\* position r is reported before position p for query vector q
Before(xb, q, r, p) ==
  \/ L2sqr(xb[r], q) < L2sqr(xb[p], q)
  \/ (L2sqr(xb[r], q) = L2sqr(xb[p], q) /\ r < p)

\* the position holding rank j (1 = nearest) among the stored vectors
Nth(xb, q, j) ==
  CHOOSE p \in 1..Len(xb) :
    Cardinality({r \in 1..Len(xb) : Before(xb, q, r, p)}) = j - 1

\* index.search(query_vector, k): k (distance, label) pairs by increasing
\* distance, padded with label -1 when fewer than k vectors are stored.
\* Labels are positions 1..ntotal here (0..ntotal-1 in the source).
IndexSearch(xb, q, k) ==
  [j \in 1..k |->
     IF j <= Len(xb)
       THEN [dist |-> L2sqr(xb[Nth(xb, q, j)], q), idx |-> Nth(xb, q, j)]
       ELSE [dist |-> -1, idx |-> -1]]

\* 1 / (1 + distance), kept as an exact fraction
Score(d) == [num |-> 1, den |-> 1 + d]

\* result = self.documents[idx].copy(); result['score'] = ...
Scored(doc, d) == [id |-> doc.id, content |-> doc.content, score |-> Score(d)]

\* the value returned by a read-only method together with what it logged
Out(list, groups, num, fault, calls, log) ==
  [list |-> list, groups |-> groups, num |-> num, fault |-> fault,
   calls |-> calls, log |-> log]

Float(n, d) == [nan |-> FALSE, num |-> n, den |-> d]
NaN == [nan |-> TRUE, num |-> 0, den |-> 0]
Zero == Float(0, 1)

search(idx, docs, query, k, fail) ==
  IF idx.isNone
    THEN Out(<<>>, <<>>, Zero, FALSE, <<>>, <<Error("Error performing search")>>)
  ELSE IF fail
    THEN Out(<<>>, <<>>, Zero, TRUE, <<(<<query>>)>>,
             <<Error("Error performing search")>>)
  ELSE IF k = 0
    \* faiss asserts k > 0
    THEN Out(<<>>, <<>>, Zero, FALSE, <<(<<query>>)>>,
             <<Error("Error performing search")>>)
  ELSE LET hits == IndexSearch(idx.xb, encode(query), k)
           n    == Min(k, Len(idx.xb))
       IN IF \E i \in 1..n : hits[i].idx > Len(docs)
            \* self.documents[idx] raises IndexError
            THEN Out(<<>>, <<>>, Zero, FALSE, <<(<<query>>)>>,
                     <<Error("Error performing search")>>)
            ELSE Out([i \in 1..n |-> Scored(docs[hits[i].idx], hits[i].dist)],
                     <<>>, Zero, FALSE, <<(<<query>>)>>, <<>>)

get_similar_documents(idx, docs, id, k, fail) ==
  IF idx.isNone \/ FirstIdx(docs, id) = 0
    THEN Out(<<>>, <<>>, Zero, FALSE, <<>>,
             <<Error("Error finding similar documents")>>)
  ELSE LET doc == docs[FirstIdx(docs, id)] IN
    IF fail
      THEN Out(<<>>, <<>>, Zero, TRUE, <<(<<doc.content>>)>>,
               <<Error("Error finding similar documents")>>)
    ELSE LET hits == IndexSearch(idx.xb, encode(doc.content), k + 1)
             n    == Min(k + 1, Len(idx.xb))
             keep == SelectSeq([i \in 1..n |-> hits[i]],
                               LAMBDA h : docs[h.idx].id # id)
         IN IF \E i \in 1..n : hits[i].idx > Len(docs)
              THEN Out(<<>>, <<>>, Zero, FALSE, <<(<<doc.content>>)>>,
                       <<Error("Error finding similar documents")>>)
              ELSE Out([i \in 1..Min(k, Len(keep)) |->
                          Scored(docs[keep[i].idx], keep[i].dist)],
                       <<>>, Zero, FALSE, <<(<<doc.content>>)>>, <<>>)

\* get_document_embedding: the vector, or <<>> for np.array([]) on any error
get_document_embedding(idx, docs, id, fail) ==
  IF idx.isNone \/ FirstIdx(docs, id) = 0
    THEN [emb |-> <<>>, fault |-> FALSE, calls |-> <<>>,
          log |-> <<Error("Error getting document embedding")>>]
  ELSE LET doc == docs[FirstIdx(docs, id)] IN
    IF fail
      THEN [emb |-> <<>>, fault |-> TRUE, calls |-> <<(<<doc.content>>)>>,
            log |-> <<Error("Error getting document embedding")>>]
      ELSE [emb |-> encode(doc.content), fault |-> FALSE,
            calls |-> <<(<<doc.content>>)>>, log |-> <<>>]

\* np.linalg.norm on the integer vectors used here (all have integral norm)
Norm(v) == CHOOSE r \in 0..(Dot(v, v)) : r * r = Dot(v, v)

calculate_similarity(idx, docs, id1, id2, fail1, fail2) ==
  LET e1 == get_document_embedding(idx, docs, id1, fail1)
      e2 == get_document_embedding(idx, docs, id2, fail2)
      value ==
        IF e1.emb = <<>> \/ e2.emb = <<>>
          THEN Zero
        ELSE IF Norm(e1.emb) * Norm(e2.emb) = 0
          \* numpy float division by zero: nan with a RuntimeWarning
          THEN NaN
        ELSE Float(Dot(e1.emb, e2.emb), Norm(e1.emb) * Norm(e2.emb))
  IN Out(<<>>, <<>>, value, e1.fault \/ e2.fault, e1.calls \o e2.calls,
         e1.log \o e2.log)

\* The label assignments faiss.Kmeans(d, k, niter=20) followed by
\* kmeans.index.search(embeddings, 1) can produce: every vector gets the
\* label of one nearest centroid, so equal vectors get equal labels.
KmeansLabels(vecs, n_clusters) ==
  {lab \in [1..Len(vecs) -> 0..(n_clusters - 1)] :
     \A i, j \in 1..Len(vecs) : vecs[i] = vecs[j] => lab[i] = lab[j]}

\* clusters[label].append(self.documents[i]['id']) for each i in order
Group(docs, lab, c) ==
  LET pos == SelectSeq([i \in 1..Len(docs) |-> i], LAMBDA i : lab[i] = c)
  IN [j \in 1..Len(pos) |-> docs[pos[j]].id]

cluster_documents(idx, docs, n_clusters, fail, lab) ==
  IF idx.isNone
    THEN Out(<<>>, <<>>, Zero, FALSE, <<>>,
             <<Error("Error clustering documents")>>)
  ELSE IF fail
    THEN Out(<<>>, <<>>, Zero, TRUE, <<ContentsOf(docs)>>,
             <<Error("Error clustering documents")>>)
  ELSE IF docs = <<>> \/ Len(docs) < n_clusters
    \* embeddings.shape[1] raises on an empty batch; Kmeans.train raises
    \* when there are fewer training points than clusters
    THEN Out(<<>>, <<>>, Zero, FALSE, <<ContentsOf(docs)>>,
             <<Error("Error clustering documents")>>)
  ELSE Out(<<>>, [c \in 1..n_clusters |-> Group(docs, lab, c - 1)], Zero,
           FALSE, <<ContentsOf(docs)>>, <<>>)

\* ------------------------------------------------------------------ state
VARIABLES
  index,       \* self.index: None or the flat index with its stored vectors
  documents,   \* self.documents
  ret,         \* the last completed call as its caller sees it
  caller,      \* the list object last handed to build_index, as its owner sees it
  threads,     \* per thread: the mutating call it is inside and where
  epoch,       \* the calls in flight together since the instance was last at rest
  limiter      \* the closure of one rate_limit-decorated function

vars == <<index, documents, ret, caller, threads, epoch, limiter>>

\* what a call that runs to completion without interruption leaves alone
others == <<threads, epoch, limiter>>

NoDoc == [id |-> "", content |-> ""]
NoArgs == [docs |-> <<>>, doc |-> NoDoc, id |-> "", id2 |-> "", query |-> "",
           k |-> 0]

\* a method whose body has no try/except: what it raises reaches the caller
Returned_unguarded(op, args, returns, o) ==
  [op |-> op, args |-> args,
   raised |-> IF \E i \in 1..Len(o.log) : o.log[i].level = "error"
                THEN "Exception" ELSE "none",
   returns |-> returns,
   list |-> o.list, groups |-> o.groups, num |-> o.num,
   fault |-> o.fault, calls |-> o.calls, log |-> o.log]

\* What the caller of `op` gets back.  Every method body is one
\* try/except Exception, so no exception reaches the caller; `returns` is
\* the kind of value returned ("None", "list" or "float").
Returned(op, args, returns, o) ==
  [op |-> op, args |-> args, raised |-> "none", returns |-> returns,
   list |-> o.list, groups |-> o.groups, num |-> o.num,
   fault |-> o.fault, calls |-> o.calls, log |-> o.log]

\* a mutating method returns None
ReturnedNone(op, args, m) ==
  Returned(op, args, "None",
           Out(<<>>, <<>>, Zero, m.fault, m.calls, m.log))

\* the threads that may be inside a mutating method of the shared instance
Threads == {"t1", "t2"}

\* a thread outside every method
Idle == [op |-> "idle", pc |-> 0, doc |-> NoDoc, id |-> "", doc_idx |-> 0,
         texts |-> <<>>, embeddings |-> <<>>, calls |-> 0]

NoEpoch == [base |-> <<None, <<>>>>, started |-> <<>>, more |-> FALSE]

\* no function has been decorated.  `now` is the clock time.time() reads,
\* `status` the outcome of the last call of the wrapper (200 when the wrapped
\* function was called, 429 when HTTPException(429) was raised), `invoked`
\* the number of calls of the wrapped function since last_reset was set.
NoLimiter == [decorated |-> FALSE, max_calls |-> 0, time_frame |-> 0,
              now |-> 0, last_reset |-> 0, num_calls |-> 0, status |-> 0,
              invoked |-> 0]

\* build_index keeps the very list it is handed (self.documents = documents):
\* while `held`, self.documents and the caller's list are one object and
\* `list` is its content.  clear_index binds self.documents to a new list;
\* a list the index no longer refers to is not tracked.
NoList == [held |-> FALSE, list |-> <<>>]

\* the caller's list after a method that leaves self.documents as m.documents
\* without rebinding it to another object
SameObject(m) == IF caller.held THEN [caller EXCEPT !.list = m.documents]
                 ELSE caller

Init ==
  /\ index = None
  /\ documents = <<>>
  /\ caller = NoList
  /\ threads = [t \in Threads |-> Idle]
  /\ epoch = NoEpoch
  /\ limiter = NoLimiter
  /\ ret = Returned("__init__", NoArgs, "None",
                    Out(<<>>, <<>>, Zero, FALSE, <<>>, <<>>))

\* lists a caller hands to build_index: no two documents share an id
BuildLists ==
  {l \in UNION {[1..n -> Document] : n \in 0..MaxBuild} :
     \A i, j \in 1..Len(l) : i # j => l[i].id # l[j].id}

Ks == 0..MaxK

WithinBounds(m) ==
  /\ Len(m.documents) <= MaxDocs
  /\ Len(m.index.xb) <= MaxDocs

BuildIndex(F) ==
  \E docs \in BuildLists, fail \in F :
    LET m == build_index(index, docs, fail) IN
      /\ index' = m.index
      /\ documents' = m.documents
      /\ ret' = ReturnedNone("build_index", [NoArgs EXCEPT !.docs = docs], m)
      /\ caller' = [held |-> TRUE, list |-> m.documents]
      /\ UNCHANGED others

ClearIndex ==
  LET m == clear_index(index, documents) IN
    /\ index' = m.index
    /\ documents' = m.documents
    /\ ret' = ReturnedNone("clear_index", NoArgs, m)
    /\ caller' = NoList
    /\ UNCHANGED others

AddDocument(F) ==
  \E doc \in Document, fail \in F :
    LET m == add_document(index, documents, doc, fail) IN
      /\ WithinBounds(m)
      /\ index' = m.index
      /\ documents' = m.documents
      /\ ret' = ReturnedNone("add_document", [NoArgs EXCEPT !.doc = doc], m)
      /\ caller' = SameObject(m)
      /\ UNCHANGED others

RemoveDocument(F) ==
  \E id \in Ids, fail \in F :
    LET m == remove_document(index, documents, id, fail) IN
      /\ index' = m.index
      /\ documents' = m.documents
      /\ ret' = ReturnedNone("remove_document", [NoArgs EXCEPT !.id = id], m)
      /\ caller' = SameObject(m)
      /\ UNCHANGED others

UpdateDocument(F) ==
  \E doc \in Document, fail \in F :
    LET m == update_document(index, documents, doc, fail) IN
      /\ WithinBounds(m)
      /\ index' = m.index
      /\ documents' = m.documents
      /\ ret' = ReturnedNone("update_document", [NoArgs EXCEPT !.doc = doc], m)
      /\ caller' = SameObject(m)
      /\ UNCHANGED others

\* search putting the score into the stored document itself, not into a copy
Search_without_copy(F) ==
  \E query \in Contents, k \in Ks, fail \in F :
    LET o    == search(index, documents, query, k, fail)
        hits == IndexSearch(index.xb, encode(query), k)
        at(i) == {j \in 1..Len(o.list) : hits[j].idx = i}
    IN /\ ret' = Returned("search", [NoArgs EXCEPT !.query = query, !.k = k],
                          "list", o)
       /\ documents' = [i \in 1..Len(documents) |->
                          IF at(i) # {} THEN o.list[CHOOSE j \in at(i) : TRUE]
                          ELSE documents[i]]
       /\ UNCHANGED <<index, caller, others>>

Search(F) ==
  \E query \in Contents, k \in Ks, fail \in F :
    /\ ret' = Returned("search", [NoArgs EXCEPT !.query = query, !.k = k],
                       "list", search(index, documents, query, k, fail))
    /\ UNCHANGED <<index, documents, caller, others>>

GetSimilarDocuments(F) ==
  \E id \in Ids, k \in Ks, fail \in F :
    /\ ret' = Returned("get_similar_documents",
                       [NoArgs EXCEPT !.id = id, !.k = k], "list",
                       get_similar_documents(index, documents, id, k, fail))
    /\ UNCHANGED <<index, documents, caller, others>>

GetDocumentEmbedding(F) ==
  \E id \in Ids, fail \in F :
    LET e == get_document_embedding(index, documents, id, fail) IN
      /\ ret' = Returned("get_document_embedding", [NoArgs EXCEPT !.id = id],
                         "ndarray",
                         Out(e.emb, <<>>, Zero, e.fault, e.calls, e.log))
      /\ UNCHANGED <<index, documents, caller, others>>

CalculateSimilarity(F) ==
  \E id1 \in Ids, id2 \in Ids, fail1 \in F, fail2 \in F :
    /\ ret' = Returned("calculate_similarity",
                       [NoArgs EXCEPT !.id = id1, !.id2 = id2], "float",
                       calculate_similarity(index, documents, id1, id2,
                                            fail1, fail2))
    /\ UNCHANGED <<index, documents, caller, others>>

ClusterDocuments(F) ==
  \E n_clusters \in 1..MaxClusters, fail \in F :
    \E lab \in KmeansLabels(encode_batch(ContentsOf(documents)), n_clusters) :
      /\ ret' = Returned("cluster_documents",
                         [NoArgs EXCEPT !.k = n_clusters], "list",
                         cluster_documents(index, documents, n_clusters,
                                           fail, lab))
      /\ UNCHANGED <<index, documents, caller, others>>

\* ------------------------------------------- calls in flight together
\* The module-level instance is shared by every thread of the process and no
\* method takes a lock, so a thread inside a mutating method can be
\* interleaved with other calls between any two statements.  A step below is
\* one stretch of statements of one call; `pc` is the line the thread is at.
\* build_index and clear_index themselves are called while no other call is
\* in flight, and a read-only call runs without interruption.

AllIdle == \A t \in Threads : threads[t].op = "idle"

Call(op, doc, id) == [op |-> op, doc |-> doc, id |-> id]

\* thread t may begin a call
CanBegin(t) == threads[t].op = "idle" /\ threads[t].calls < MaxThreadCalls

\* the frame of thread t entering a method
Frame(t) == [Idle EXCEPT !.calls = threads[t].calls + 1]

\* thread t after a call that returned
Returns(t) == [threads EXCEPT ![t] = [Idle EXCEPT !.calls = threads[t].calls]]

\* thread t after a call that returned within its first step
ReturnsAtOnce(t) == [threads EXCEPT ![t].calls = @ + 1]

\* the record of calls in flight together, after `call` has begun
Started(call) ==
  IF AllIdle
    THEN [base |-> <<index, documents>>, started |-> <<call>>, more |-> FALSE]
  ELSE IF Len(epoch.started) < 2
    THEN [epoch EXCEPT !.started = Append(@, call)]
  ELSE [epoch EXCEPT !.more = TRUE]

\* the record is dropped when the last call in flight returns
Closed(ts) == IF \A t \in Threads : ts[t].op = "idle" THEN NoEpoch ELSE epoch

\* the call of thread t returns with the log records `log`
Completes(t, fault, log) ==
  LET f == threads[t] IN
    /\ ret' = ReturnedNone(f.op, [NoArgs EXCEPT !.doc = f.doc, !.id = f.id],
                           [fault |-> fault, calls |-> <<f.texts>>, log |-> log])
    /\ threads' = Returns(t)
    /\ epoch' = Closed(threads')

\* the thread of t moves on to line pc
Goto(t, pc) ==
  /\ threads' = [threads EXCEPT ![t].pc = pc]
  /\ UNCHANGED <<ret, epoch>>

\* the closing log record of the method that called build_index
Done(op) == IF op = "remove_document" THEN Info("Removed document from index")
            ELSE Info("Updated document in index")

\* add_document, lines 73-76: the index check and the encoding
AddStart(t, F) ==
  \E doc \in Document, fail \in F :
    /\ CanBegin(t)
    /\ IF index.isNone \/ fail
         THEN /\ ret' = ReturnedNone("add_document", [NoArgs EXCEPT !.doc = doc],
                                     add_document(index, documents, doc, fail))
              /\ threads' = ReturnsAtOnce(t)
              /\ UNCHANGED epoch
         ELSE /\ epoch' = Started(Call("add_document", doc, ""))
              /\ threads' = [threads EXCEPT ![t] =
                   [Frame(t) EXCEPT !.op = "add_document", !.pc = 77, !.doc = doc,
                                !.texts = <<doc.content>>,
                                !.embeddings = <<encode(doc.content)>>]]
              /\ UNCHANGED ret
    /\ UNCHANGED <<index, documents, caller, limiter>>

\* line 77: self.index.add(embedding)
AddToIndex(t) ==
  /\ threads[t].pc = 77
  /\ Len(index.xb) < MaxDocs
  /\ index' = IndexAdd(index, threads[t].embeddings[1])
  /\ Goto(t, 78)
  /\ UNCHANGED <<documents, caller, limiter>>

\* lines 78-80: self.documents.append(document), and the return
AppendDocument(t) ==
  /\ threads[t].pc = 78
  /\ Len(documents) < MaxDocs
  /\ documents' = Append(documents, threads[t].doc)
  /\ caller' = SameObject([documents |-> documents'])
  /\ Completes(t, FALSE,
               IF threads[t].op = "update_document"
                 THEN <<Warning("Document not found in index. Adding as new document."),
                        Info("Added document to index")>>
                 ELSE <<Info("Added document to index")>>)
  /\ UNCHANGED <<index, limiter>>

\* remove_document, lines 89-93: the index check and the lookup
RemoveStart(t) ==
  \E id \in Ids :
    /\ CanBegin(t)
    /\ IF index.isNone \/ FirstIdx(documents, id) = 0
         THEN /\ ret' = ReturnedNone("remove_document", [NoArgs EXCEPT !.id = id],
                                     remove_document(index, documents, id, FALSE))
              /\ threads' = ReturnsAtOnce(t)
              /\ UNCHANGED epoch
         ELSE /\ epoch' = Started(Call("remove_document", NoDoc, id))
              /\ threads' = [threads EXCEPT ![t] =
                   [Frame(t) EXCEPT !.op = "remove_document", !.pc = 95, !.id = id,
                                !.doc_idx = FirstIdx(documents, id)]]
              /\ UNCHANGED ret
    /\ UNCHANGED <<index, documents, caller, limiter>>

\* line 95: del self.documents[doc_idx]; IndexError when the list got shorter
DeleteDocument(t) ==
  /\ threads[t].pc = 95
  /\ IF threads[t].doc_idx > Len(documents)
       THEN /\ Completes(t, FALSE, <<Error("Error removing document from index")>>)
            /\ UNCHANGED <<documents, caller>>
       ELSE /\ documents' = Del(documents, threads[t].doc_idx)
            /\ caller' = SameObject([documents |-> documents'])
            /\ Goto(t, 24)
  /\ UNCHANGED <<index, limiter>>

\* update_document, lines 111-115 and, for an id not stored, 124-125 with
\* lines 73-76 of add_document
UpdateStart(t, F) ==
  \E doc \in Document, fail \in F :
    /\ CanBegin(t)
    /\ IF index.isNone \/ (FirstIdx(documents, doc.id) = 0 /\ fail)
         THEN /\ ret' = ReturnedNone("update_document",
                                     [NoArgs EXCEPT !.doc = doc],
                                     update_document(index, documents, doc, fail))
              /\ threads' = ReturnsAtOnce(t)
              /\ UNCHANGED epoch
         ELSE /\ epoch' = Started(Call("update_document", doc, ""))
              /\ threads' = [threads EXCEPT ![t] =
                   IF FirstIdx(documents, doc.id) = 0
                     THEN [Frame(t) EXCEPT !.op = "update_document", !.pc = 77,
                                       !.doc = doc, !.texts = <<doc.content>>,
                                       !.embeddings = <<encode(doc.content)>>]
                     ELSE [Frame(t) EXCEPT !.op = "update_document", !.pc = 117,
                                       !.doc = doc,
                                       !.doc_idx = FirstIdx(documents, doc.id)]]
              /\ UNCHANGED ret
    /\ UNCHANGED <<index, documents, caller, limiter>>

\* line 117: self.documents[doc_idx] = document
AssignDocument(t) ==
  /\ threads[t].pc = 117
  /\ IF threads[t].doc_idx > Len(documents)
       THEN /\ Completes(t, FALSE, <<Error("Error updating document in index")>>)
            /\ UNCHANGED <<documents, caller>>
       ELSE /\ documents' = [documents EXCEPT ![threads[t].doc_idx] = threads[t].doc]
            /\ caller' = SameObject([documents |-> documents'])
            /\ Goto(t, 24)
  /\ UNCHANGED <<index, limiter>>

\* build_index(self.documents) called at line 98 or 120, lines 23-25: the
\* list stays the same object, its contents are encoded
EncodeDocuments(t, F) ==
  \E fail \in F :
    LET texts == ContentsOf(documents) IN
    /\ threads[t].pc = 24
    /\ IF fail \/ documents = <<>>
         THEN /\ ret' = ReturnedNone(threads[t].op,
                           [NoArgs EXCEPT !.doc = threads[t].doc,
                                          !.id = threads[t].id],
                           [fault |-> fail, calls |-> <<texts>>,
                            log |-> <<Error("Error building index"),
                                      Done(threads[t].op)>>])
              /\ threads' = Returns(t)
              /\ epoch' = Closed(threads')
         ELSE /\ threads' = [threads EXCEPT ![t].pc = 27, ![t].texts = texts,
                                            ![t].embeddings = encode_batch(texts)]
              /\ UNCHANGED <<ret, epoch>>
    /\ UNCHANGED <<index, documents, caller, limiter>>

\* lines 27-30 of build_index, then the caller's closing log record
AssignIndex(t) ==
  /\ threads[t].pc = 27
  /\ index' = IndexFlatL2(threads[t].embeddings)
  /\ Completes(t, FALSE, <<Info("Built index"), Done(threads[t].op)>>)
  /\ UNCHANGED <<documents, caller, limiter>>

BuildAtRest == AllIdle /\ BuildIndex({FALSE})

ClearAtRest == AllIdle /\ ClearIndex

\* the steps of the mutating calls of the threads T
Mutate(T) ==
  \/ \E t \in T : AddStart(t, {FALSE})
  \/ \E t \in T : AddToIndex(t)
  \/ \E t \in T : AppendDocument(t)
  \/ \E t \in T : RemoveStart(t)
  \/ \E t \in T : DeleteDocument(t)
  \/ \E t \in T : UpdateStart(t, {FALSE})
  \/ \E t \in T : AssignDocument(t)
  \/ \E t \in T : EncodeDocuments(t, {FALSE})
  \/ \E t \in T : AssignIndex(t)

\* one thread mutates while read-only calls are made; the embedding provider
\* never raises
NextInterleavedReads ==
  \/ BuildAtRest
  \/ ClearAtRest
  \/ Mutate({"t1"})
  \/ Search({FALSE})
  \/ GetSimilarDocuments({FALSE})
  \/ CalculateSimilarity({FALSE})
  \/ ClusterDocuments({FALSE})

SpecInterleavedReads == Init /\ [][NextInterleavedReads]_vars

\* the threads mutate together; the embedding provider never raises
NextInterleavedMutations ==
  \/ BuildAtRest
  \/ ClearAtRest
  \/ Mutate(Threads)

SpecInterleavedMutations == Init /\ [][NextInterleavedMutations]_vars

\* the embedding provider may raise on any call
Next ==
  \/ BuildIndex(BOOLEAN)
  \/ ClearIndex
  \/ AddDocument(BOOLEAN)
  \/ RemoveDocument(BOOLEAN)
  \/ UpdateDocument(BOOLEAN)
  \/ Search(BOOLEAN)
  \/ GetSimilarDocuments(BOOLEAN)
  \/ GetDocumentEmbedding(BOOLEAN)
  \/ CalculateSimilarity(BOOLEAN)
  \/ ClusterDocuments(BOOLEAN)

Spec == Init /\ [][Next]_vars

\* the embedding provider never raises
NextReliable ==
  \/ BuildIndex({FALSE})
  \/ ClearIndex
  \/ AddDocument({FALSE})
  \/ RemoveDocument({FALSE})
  \/ UpdateDocument({FALSE})
  \/ Search({FALSE})
  \/ GetSimilarDocuments({FALSE})
  \/ GetDocumentEmbedding({FALSE})
  \/ CalculateSimilarity({FALSE})
  \/ ClusterDocuments({FALSE})

SpecReliable == Init /\ [][NextReliable]_vars

\* only the mutating methods are called; the embedding provider may raise
NextMutations ==
  \/ BuildIndex(BOOLEAN)
  \/ ClearIndex
  \/ AddDocument(BOOLEAN)
  \/ RemoveDocument(BOOLEAN)
  \/ UpdateDocument(BOOLEAN)

SpecMutations == Init /\ [][NextMutations]_vars

\* the embedding provider answers every mutating call and may raise in any
\* read-only call
NextReads ==
  \/ BuildIndex({FALSE})
  \/ ClearIndex
  \/ AddDocument({FALSE})
  \/ RemoveDocument({FALSE})
  \/ UpdateDocument({FALSE})
  \/ Search(BOOLEAN)
  \/ GetSimilarDocuments(BOOLEAN)
  \/ GetDocumentEmbedding(BOOLEAN)
  \/ CalculateSimilarity(BOOLEAN)
  \/ ClusterDocuments(BOOLEAN)

SpecReads == Init /\ [][NextReads]_vars

\* The caller of build_index changes the list it handed over.  While the
\* index holds that list (line 23) the change is a change of self.documents.
CallerAppends ==
  \E doc \in Document :
    /\ caller.held
    /\ Len(caller.list) < MaxDocs
    /\ caller' = [caller EXCEPT !.list = Append(@, doc)]
    /\ documents' = caller'.list
    /\ UNCHANGED <<index, ret, others>>

CallerDeletes ==
  \E i \in 1..Len(caller.list) :
    /\ caller.held
    /\ caller' = [caller EXCEPT !.list = Del(@, i)]
    /\ documents' = caller'.list
    /\ UNCHANGED <<index, ret, others>>

\* the caller keeps using its list; the embedding provider never raises
NextAliased ==
  \/ BuildIndex({FALSE})
  \/ ClearIndex
  \/ AddDocument({FALSE})
  \/ RemoveDocument({FALSE})
  \/ UpdateDocument({FALSE})
  \/ CallerAppends
  \/ CallerDeletes

SpecAliased == Init /\ [][NextAliased]_vars

\* ------------------------------------------------- utils/helpers.rate_limit
\* wrapper(*args, **kwargs) of the closure l, time.time() reading t1 at line
\* 210 and t2 at line 211
wrapper_off_by_one(l, t1, t2) ==
  LET reset      == t1 - l.last_reset > l.time_frame
      last_reset == IF reset THEN t2 ELSE l.last_reset
      num_calls  == IF reset THEN 0 ELSE l.num_calls
  IN IF num_calls <= l.max_calls
       THEN [last_reset |-> last_reset, num_calls |-> num_calls + 1,
             status |-> 200]
       ELSE [last_reset |-> last_reset, num_calls |-> num_calls,
             status |-> 429]

wrapper(l, t1, t2) ==
  LET reset      == t1 - l.last_reset > l.time_frame
      last_reset == IF reset THEN t2 ELSE l.last_reset
      num_calls  == IF reset THEN 0 ELSE l.num_calls
  IN IF num_calls < l.max_calls
       THEN [last_reset |-> last_reset, num_calls |-> num_calls + 1,
             status |-> 200]
       ELSE [last_reset |-> last_reset, num_calls |-> num_calls,
             status |-> 429]

semantic_index == <<index, documents, ret, caller, threads, epoch>>

\* @rate_limit(max_calls, time_frame) applied to a function: decorator(func)
Decorate ==
  \E max_calls \in 1..MaxCalls, time_frame \in 0..MaxTimeFrame :
    /\ ~limiter.decorated
    /\ limiter' = [NoLimiter EXCEPT !.decorated = TRUE,
                                    !.max_calls = max_calls,
                                    !.time_frame = time_frame,
                                    !.now = limiter.now,
                                    !.last_reset = limiter.now]
    /\ UNCHANGED semantic_index

\* a second of time passes
Tick ==
  /\ limiter.decorated
  /\ limiter.now < MaxTime
  /\ limiter' = [limiter EXCEPT !.now = @ + 1]
  /\ UNCHANGED semantic_index

\* one call of the decorated function; the clock may move on between the
\* two readings
CallWrapped ==
  \E t2 \in {limiter.now, limiter.now + 1} :
    LET w == wrapper(limiter, limiter.now, t2) IN
      /\ limiter.decorated
      /\ t2 <= MaxTime
      /\ limiter' = [limiter EXCEPT
            !.now = t2,
            !.last_reset = w.last_reset,
            !.num_calls = w.num_calls,
            !.status = w.status,
            !.invoked = (IF w.last_reset # limiter.last_reset THEN 0 ELSE @)
                        + (IF w.status = 200 THEN 1 ELSE 0)]
      /\ UNCHANGED semantic_index

NextRateLimit ==
  \/ Decorate
  \/ Tick
  \/ CallWrapped

SpecRateLimit == Init /\ [][NextRateLimit]_vars

\* ----------------------------------------------------------------- claims
Readers == {"search", "get_similar_documents", "calculate_similarity",
            "cluster_documents"}

\* the ids of the documents in a result list
ResultIds(list) == {list[i].id : i \in 1..Len(list)}

\* C1: after every completed call the vector store holds as many vectors as
\* the catalog holds documents.
C1_LengthsAgree == Len(index.xb) = Len(documents)

\* C2: after every completed call, at every position that holds both a
\* vector and a document, the vector is encode(content of that document).
C2_PositionsAligned ==
  \A i \in 1..Min(Len(index.xb), Len(documents)) :
    index.xb[i] = encode(documents[i].content)

\* C3 (consequence): no two catalog positions hold the same id.
NoDuplicateIds ==
  \A i, j \in 1..Len(documents) : i # j => documents[i].id # documents[j].id

\* C3: add_document on a Ready index with an id already in the catalog is
\* rejected with DuplicateIdError and changes neither catalog nor vectors;
\* hence the catalog never holds two documents with one id.
C3_DuplicateRejected ==
  /\ [][(/\ ret'.op = "add_document"
         /\ ~index.isNone
         /\ ret'.args.doc.id \in IdsOf(documents))
        => (/\ ret'.raised = "DuplicateIdError"
            /\ UNCHANGED <<index, documents>>)]_vars
  /\ []NoDuplicateIds

\* C4: a build_index call during which the embedding provider fails leaves
\* catalog and vector store as they were before the call.
C4_FailedBuildRestores ==
  [][(ret'.op = "build_index" /\ ret'.fault)
     => UNCHANGED <<index, documents>>]_vars

\* C5: an add_document, an update_document of an existing id or a
\* remove_document of an existing id during which the embedding provider
\* fails leaves catalog and vector store as they were before the call.
C5_FailedMutationRestores ==
  [][(/\ ret'.fault
      /\ \/ ret'.op = "add_document"
         \/ (ret'.op = "update_document"
             /\ ret'.args.doc.id \in IdsOf(documents))
         \/ (ret'.op = "remove_document"
             /\ ret'.args.id \in IdsOf(documents)))
     => UNCHANGED <<index, documents>>]_vars

\* C6: when the embedding provider fails inside build_index, add_document
\* or update_document, the call reports EmbeddingFailure to its caller.
C6_FailureReported ==
  (ret.op \in {"build_index", "add_document", "update_document"} /\ ret.fault)
    => ret.raised = "EmbeddingFailure"

\* C7: a read-only call on an Unbuilt index fails with NotReadyError.
C7_UnbuiltReported ==
  (ret.op \in Readers /\ index.isNone) => ret.raised = "NotReadyError"

\* C8: on a Ready index, get_similar_documents of an id not in the catalog
\* and calculate_similarity with either id not in the catalog fail with
\* NotFoundError.
C8_UnknownIdReported ==
  (/\ ~index.isNone
   /\ \/ (ret.op = "get_similar_documents"
          /\ ret.args.id \notin IdsOf(documents))
      \/ (ret.op = "calculate_similarity"
          /\ (ret.args.id \notin IdsOf(documents)
              \/ ret.args.id2 \notin IdsOf(documents))))
    => ret.raised = "NotFoundError"

\* C9: build_index of an empty list leaves the index Ready with no document
\* and no vector; a following search returns an empty list, and a following
\* add_document of d makes d the result of search(d.content, 1).
C9_EmptyBuildReady ==
  (ret.op = "build_index" /\ ret.args.docs = <<>> /\ ~ret.fault)
    => /\ ~index.isNone
       /\ documents = <<>>
       /\ index.xb = <<>>
       /\ \A q \in Contents, k \in Ks :
            LET s == search(index, documents, q, k, FALSE)
            IN s.list = <<>> /\ s.log = <<>>
       /\ \A d \in Document :
            LET a == add_document(index, documents, d, FALSE)
            IN search(a.index, a.documents, d.content, 1, FALSE).list
                 = <<Scored(d, 0)>>

\* C10: after remove_document(id) on a Ready index no search and no
\* get_similar_documents of another id returns a document with that id, and
\* a second remove_document(id) reports not-found and changes nothing.
C10_RemovedNeverReturned ==
  (ret.op = "remove_document" /\ ~index.isNone)
    => LET id == ret.args.id IN
       /\ \A q \in Contents, k \in Ks :
            id \notin ResultIds(search(index, documents, q, k, FALSE).list)
       /\ \A other \in Ids \ {id}, k \in Ks :
            id \notin ResultIds(
              get_similar_documents(index, documents, other, k, FALSE).list)
       /\ \A fail \in BOOLEAN :
            LET r == remove_document(index, documents, id, fail)
            IN /\ r.log = <<Warning("Document not found in index")>>
               /\ r.index = index
               /\ r.documents = documents

\* C11: remove_document of an id absent from the catalog of a Ready index
\* leaves catalog, vectors and Ready state unchanged, does not call the
\* embedding provider and lets no exception reach the caller.
C11_AbsentRemoveNoOp ==
  [][(/\ ret'.op = "remove_document"
      /\ ~index.isNone
      /\ ret'.args.id \notin IdsOf(documents))
     => (/\ UNCHANGED <<index, documents>>
         /\ ret'.calls = <<>>
         /\ ~ret'.fault
         /\ ret'.raised = "none")]_vars

\* a remove_document of an absent id has completed on a Ready index that
\* holds another document
C11_Witness ==
  /\ ret.op = "remove_document"
  /\ ~index.isNone
  /\ documents # <<>>
  /\ ret.args.id \notin IdsOf(documents)
  /\ ret.log = <<Warning("Document not found in index")>>

\* C12: add_document of a fresh id on a Ready index with n documents gives
\* n+1 documents and n+1 vectors, the new document and its encoding at the
\* last position, and the first n documents and vectors unchanged.
C12_AddAppends ==
  [][(/\ ret'.op = "add_document"
      /\ ~index.isNone
      /\ ret'.args.doc.id \notin IdsOf(documents))
     => LET n   == Len(documents)
            doc == ret'.args.doc
        IN /\ Len(documents') = n + 1
           /\ Len(index'.xb) = n + 1
           /\ documents'[n + 1] = doc
           /\ index'.xb[n + 1] = encode(doc.content)
           /\ \A i \in 1..n : /\ documents'[i] = documents[i]
                              /\ index'.xb[i] = index.xb[i]]_vars

\* the catalog part of C13: an update_document step of an id held at
\* position p keeps the catalog length, puts the document at p and leaves
\* every other position as it was
UpdateInPlace(doc) ==
  LET p == FirstIdx(documents, doc.id)
  IN /\ Len(documents') = Len(documents)
     /\ documents'[p] = doc
     /\ \A i \in 1..Len(documents) : i # p => documents'[i] = documents[i]

\* calculate_similarity(id, id) right after the step, the provider answering
SelfSimilarityAfter(id) ==
  calculate_similarity(index', documents', id, id, FALSE, FALSE).num

C14_UpdateAbsentIsAdd ==
  [][(/\ ret'.op = "update_document"
      /\ ~index.isNone
      /\ ret'.args.doc.id \notin IdsOf(documents))
     => LET doc == ret'.args.doc
            a   == add_document(index, documents, doc, ret'.fault)
        IN /\ index' = a.index
           /\ documents' = a.documents
           /\ ~ret'.fault =>
                /\ documents' = Append(documents, doc)
                /\ index'.xb = Append(index.xb, encode(doc.content))]_vars

\* an update_document of an absent id has appended to a non-empty catalog
C14_Witness ==
  /\ ret.op = "update_document"
  /\ ~index.isNone
  /\ ~ret.fault
  /\ ret.log = <<Warning("Document not found in index. Adding as new document."),
                 Info("Added document to index")>>
  /\ Len(documents) = 2
  /\ documents[2] = ret.args.doc
  /\ documents[1].id # ret.args.doc.id

\* C15: in every Ready state, for every stored document d whose content no
\* other stored document has, search(d.content, 1) returns exactly d with
\* score 1.0 (the provider answering).
C15_SelfSimilarity ==
  ~index.isNone =>
    \A i \in 1..Len(documents) :
      (\A j \in 1..Len(documents) :
         j # i => documents[j].content # documents[i].content)
      => search(index, documents, documents[i].content, 1, FALSE).list
           = <<Scored(documents[i], 0)>>

\* C16: on a Ready index with n documents search(query, k) returns exactly
\* min(k, n) results (the provider answering).
C16_ResultCount ==
  ~index.isNone =>
    \A q \in Contents, k \in Ks :
      Len(search(index, documents, q, k, FALSE).list) = Min(k, Len(documents))

\* squared distance from the query text to the document at catalog position i
DocDist(q, i) == L2sqr(encode(documents[i].content), encode(q))

\* catalog position i ranks strictly before position j for query q: smaller
\* distance, or equal distance and lower position
RanksBefore(q, i, j) ==
  \/ DocDist(q, i) < DocDist(q, j)
  \/ (DocDist(q, i) = DocDist(q, j) /\ i < j)

\* r lists, with their scores, the documents at the positions pos, which are
\* pairwise distinct and rank before every position left out
IsTopK(r, q, pos) ==
  /\ \A a, b \in DOMAIN pos : a # b => pos[a] # pos[b]
  /\ \A a \in DOMAIN pos :
       /\ r[a] = Scored(documents[pos[a]], DocDist(q, pos[a]))
       /\ \A i \in 1..Len(documents) :
            (\A b \in DOMAIN pos : pos[b] # i) => RanksBefore(q, pos[a], i)

\* score r[a] >= score r[b], both fractions having numerator 1
ScoreGeq(x, y) == x.score.den <= y.score.den

\* C17: search(query, k) on a Ready index returns the documents with the k
\* smallest squared distances to the query vector, equal distances going to
\* the lower catalog position, each with score 1/(1+distance), in order of
\* non-increasing score (the provider answering).
C17_TopKByDistance ==
  ~index.isNone =>
    \A q \in Contents, k \in 1..MaxK :
      LET r == search(index, documents, q, k, FALSE).list
          n == Min(k, Len(documents))
      IN /\ Len(r) = n
         /\ \E pos \in [1..n -> 1..Len(documents)] : IsTopK(r, q, pos)
         /\ \A a \in 1..(Len(r) - 1) : ScoreGeq(r[a], r[a + 1])

\* squared distance from vector v to the document at catalog position i
DocDistTo(v, i) == L2sqr(encode(documents[i].content), v)

\* r lists, with their scores, the documents at the positions pos, none of
\* them p, pairwise distinct and ranking before every other position but p
\* by distance to v (equal distances: lower position first)
IsTopKExcept(r, v, pos, p) ==
  /\ \A a, b \in DOMAIN pos : a # b => pos[a] # pos[b]
  /\ \A a \in DOMAIN pos :
       /\ pos[a] # p
       /\ r[a] = Scored(documents[pos[a]], DocDistTo(v, pos[a]))
       /\ \A i \in 1..Len(documents) :
            (i # p /\ \A b \in DOMAIN pos : pos[b] # i)
            => \/ DocDistTo(v, pos[a]) < DocDistTo(v, i)
               \/ (DocDistTo(v, pos[a]) = DocDistTo(v, i) /\ pos[a] < i)

\* C18: get_similar_documents(id, k) on a Ready index whose n documents
\* include id returns min(k, n-1) documents, none with that id, namely the
\* nearest other documents to the stored vector of that document, in order
\* of non-increasing score (the provider answering).
C18_SimilarExcludesSelf ==
  ~index.isNone =>
    \A id \in IdsOf(documents), k \in Ks :
      LET r == get_similar_documents(index, documents, id, k, FALSE).list
          p == FirstIdx(documents, id)
      IN /\ id \notin ResultIds(r)
         /\ Len(r) = Min(k, Len(documents) - 1)
         /\ p <= Len(index.xb)
         /\ \E pos \in [1..Len(r) -> 1..Len(documents)] :
              IsTopKExcept(r, index.xb[p], pos, p)
         /\ \A a \in 1..(Len(r) - 1) : ScoreGeq(r[a], r[a + 1])

\* C19: calculate_similarity of two stored documents never returns NaN, and
\* returns 0.0 when the embedding of either has zero magnitude.
C19_ZeroMagnitudeIsZero ==
  (/\ ret.op = "calculate_similarity"
   /\ ~index.isNone
   /\ ~ret.fault
   /\ ret.args.id \in IdsOf(documents)
   /\ ret.args.id2 \in IdsOf(documents))
    => /\ ~ret.num.nan
       /\ \A id \in {ret.args.id, ret.args.id2} :
            Norm(encode(documents[FirstIdx(documents, id)].content)) = 0
            => ret.num = Zero

\* the places (group, position in group) at which id occurs in groups
Occurrences(groups, id) ==
  {gp \in UNION {{<<c, j>> : j \in 1..Len(groups[c])} : c \in 1..Len(groups)} :
     groups[gp[1]][gp[2]] = id}

\* C20: cluster_documents(n) on a Ready index returns exactly n groups, also
\* for n larger than the number of stored documents, and every stored id
\* occurs in exactly one group (the provider answering).
C20_ClusterPartition ==
  (ret.op = "cluster_documents" /\ ~index.isNone /\ ~ret.fault)
    => /\ Len(ret.groups) = ret.args.k
       /\ \A id \in IdsOf(documents) :
            Cardinality(Occurrences(ret.groups, id)) = 1

\* the methods that only read the index
ReadOnly == Readers \cup {"get_document_embedding"}

\* C21: search, get_similar_documents, get_document_embedding,
\* calculate_similarity and cluster_documents, answered or failing, leave
\* Ready/Unbuilt state, stored documents and stored vectors as they were, and
\* no stored document ever carries a 'score' field.
C21_ReadersChangeNothing ==
  /\ [][ret'.op \in ReadOnly => UNCHANGED <<index, documents>>]_vars
  /\ [](\A i \in 1..Len(documents) : DOMAIN documents[i] = {"id", "content"})

\* a search has returned both stored documents, each with a score
C21_Witness ==
  /\ ret.op = "search"
  /\ Len(ret.list) = 2
  /\ Len(documents) = 2
  /\ \A i \in 1..2 : /\ "score" \in DOMAIN ret.list[i]
                      /\ "score" \notin DOMAIN documents[i]

\* the state a call leaves when it runs alone from state st = <<index,
\* documents>>, the embedding provider answering
Apply(call, st) ==
  LET m == CASE call.op = "add_document" ->
                  add_document(st[1], st[2], call.doc, FALSE)
             [] call.op = "remove_document" ->
                  remove_document(st[1], st[2], call.id, FALSE)
             [] OTHER ->
                  update_document(st[1], st[2], call.doc, FALSE)
  IN <<m.index, m.documents>>

\* C22: a read-only call made while one mutating call is in flight finds the
\* index either as it was before that call began or as that call leaves it.
C22_ReaderSeesWholeState ==
  [][(/\ ret'.op \in Readers
      /\ UNCHANGED <<index, documents, threads>>
      /\ ~AllIdle
      /\ Len(epoch.started) = 1)
     => <<index, documents>>
          \in {epoch.base, Apply(epoch.started[1], epoch.base)}]_vars

\* C23: when two mutating calls were in flight together, the state they
\* leave is the state one of the two sequential orders leaves.
C23_Serializable ==
  [][(/\ ~AllIdle
      /\ AllIdle'
      /\ Len(epoch.started) = 2
      /\ ~epoch.more)
     => <<index', documents'>>
          \in {Apply(epoch.started[2], Apply(epoch.started[1], epoch.base)),
               Apply(epoch.started[1], Apply(epoch.started[2], epoch.base))}]_vars

\* C24: a Ready index stays Ready across every call other than clear_index,
\* whether the call succeeds or fails.
C24_StaysReady ==
  [][(~index.isNone /\ ret'.op # "clear_index") => ~index'.isNone]_vars

\* the last document has been removed, the rebuild of the empty catalog has
\* failed, and the index is still Ready
C24_Witness ==
  /\ ret.op = "remove_document"
  /\ ret.log = <<Error("Error building index"),
                 Info("Removed document from index")>>
  /\ documents = <<>>
  /\ ~index.isNone

\* C25: build_index keeps a snapshot of the list it is handed: no later
\* add_document or remove_document changes the caller's list, and no later
\* change the caller makes to its list changes the stored documents.
C25_BuildSnapshots ==
  /\ [][(AddDocument({FALSE}) \/ RemoveDocument({FALSE}))
         => caller'.list = caller.list]_vars
  /\ [][(CallerAppends \/ CallerDeletes) => documents' = documents]_vars

\* C26: after build_index(L), the provider answering, a second
\* build_index(L) leaves the same stored documents and vectors, and every
\* search(query, k) returns the same documents with the same scores.
C26_RebuildIdempotent ==
  (ret.op = "build_index" /\ ~ret.fault)
    => LET b == build_index(index, ret.args.docs, FALSE)
       IN /\ b.index = index
          /\ b.documents = documents
          /\ \A q \in Contents, k \in Ks :
               search(b.index, b.documents, q, k, FALSE).list
                 = search(index, documents, q, k, FALSE).list

\* build_index has built an index of two documents
C26_Witness ==
  /\ ret.op = "build_index"
  /\ ret.log = <<Info("Built index")>>
  /\ Len(ret.args.docs) = 2
  /\ documents = ret.args.docs
  /\ Len(index.xb) = 2

\* C27: update_document of a stored id hands only the updated document's
\* content to the embedding provider, in one call.
C27_UpdateEncodesOne ==
  [][(/\ ret'.op = "update_document"
      /\ ~index.isNone
      /\ ret'.args.doc.id \in IdsOf(documents))
     => ret'.calls = <<(<<ret'.args.doc.content>>)>>]_vars

\* more than time_frame seconds have passed since the window started
Expired == limiter.now - limiter.last_reset > limiter.time_frame

\* C28: within one window at most max_calls calls reach the wrapped
\* function; a further call in the window is answered with 429 and does not
\* call it; a call made more than time_frame seconds after the window
\* started starts a new window and is let through.
C28_RateLimited ==
  /\ [](limiter.invoked <= limiter.max_calls)
  /\ [][(CallWrapped /\ ~Expired /\ limiter.invoked >= limiter.max_calls)
         => (limiter'.status = 429 /\ limiter'.invoked = limiter.invoked)]_vars
  /\ [][(CallWrapped /\ Expired)
         => (/\ limiter'.status = 200
             /\ limiter'.invoked = 1
             /\ limiter'.num_calls = 1
             /\ limiter'.last_reset >= limiter.now)]_vars

\* a call has been rejected in a window that a reset started and that two
\* admitted calls have used up
C28_Witness ==
  /\ limiter.decorated
  /\ limiter.max_calls = 2
  /\ limiter.last_reset > 0
  /\ limiter.invoked = 2
  /\ limiter.status = 429

\* the call returned normally, with a value of kind `returns`
Normally(r, returns) == r.raised = "none" /\ r.returns = returns

\* the call logged an error
Caught(r) == \E i \in 1..Len(r.log) : r.log[i].level = "error"

\* C29: in every state and for every input, the embedding provider raising
\* or not, no method lets an exception reach its caller: the mutating
\* methods return None; search, get_similar_documents and cluster_documents
\* return a list, empty after an error; calculate_similarity returns a
\* number, 0.0 after an error.
C29_NothingEscapes ==
  /\ ret.raised = "none"
  /\ ret.op \in {"build_index", "clear_index", "add_document",
                  "remove_document", "update_document"} => ret.returns = "None"
  /\ \A fail \in BOOLEAN :
       /\ \A q \in Contents, k \in Ks :
            LET r == Returned("search", NoArgs, "list",
                              search(index, documents, q, k, fail))
            IN Normally(r, "list") /\ (Caught(r) => r.list = <<>>)
       /\ \A id \in Ids, k \in Ks :
            LET r == Returned("get_similar_documents", NoArgs, "list",
                              get_similar_documents(index, documents, id, k,
                                                    fail))
            IN Normally(r, "list") /\ (Caught(r) => r.list = <<>>)
       /\ \A n \in 1..MaxClusters :
            \A lab \in KmeansLabels(encode_batch(ContentsOf(documents)), n) :
              LET r == Returned("cluster_documents", NoArgs, "list",
                                cluster_documents(index, documents, n, fail,
                                                  lab))
              IN Normally(r, "list") /\ (Caught(r) => r.groups = <<>>)
       /\ \A id1 \in Ids, id2 \in Ids, fail2 \in BOOLEAN :
            LET r == Returned("calculate_similarity", NoArgs, "float",
                              calculate_similarity(index, documents, id1, id2,
                                                   fail, fail2))
            IN Normally(r, "float") /\ (Caught(r) => r.num = Zero)

\* add_document has returned from a Ready index after the embedding provider
\* raised
C29_Witness ==
  /\ ret.op = "add_document"
  /\ ~index.isNone
  /\ ret.fault
  /\ ret.log = <<Error("Error adding document to index")>>
  /\ ret.raised = "none"
  /\ ret.returns = "None"

\* C30: clear_index leaves the index Unbuilt with no stored document; on
\* an Unbuilt index add_document, update_document and remove_document change
\* nothing, and search returns an empty list.
C30_ClearedStaysEmpty ==
  /\ [][ret'.op = "clear_index" => (index'.isNone /\ documents' = <<>>)]_vars
  /\ [][(/\ index.isNone
          /\ ret'.op \in {"add_document", "update_document", "remove_document"})
         => UNCHANGED <<index, documents>>]_vars
  /\ [](index.isNone =>
          \A q \in Contents, k \in Ks, fail \in BOOLEAN :
            search(index, documents, q, k, fail).list = <<>>)

\* add_document has been called on the index a clear_index had emptied
C30_Witness ==
  /\ ret.op = "add_document"
  /\ ret.log = <<Error("Error adding document to index")>>
  /\ ret.calls = <<>>
  /\ index.isNone
  /\ documents = <<>>

====
